---- MODULE Spec2Model ----
(***************************************************************************)
(* A model of the varsig crate: the Varsig value (vs.rs), its Builder, its *)
(* wire codec (EncodeInto / TryDecodeFrom), its multibase text form, the   *)
(* conversion from an ssh_key Signature and the serde adapter.             *)
(*                                                                         *)
(* A Codec is modelled by its numeric multicodec code, a byte by a number  *)
(* in 0..255, a byte string by a sequence of bytes, a text by a sequence   *)
(* of one-character strings.                                               *)
(***************************************************************************)
EXTENDS Integers, Sequences, FiniteSets, TLC

VARIABLES
    b,      \* the Builder being configured
    ctor,   \* the constructor the Builder was started with
    vs,     \* the Varsig value at hand (built, converted or decoded), or NoVarsig
    origin, \* the operation that produced vs
    inp,    \* the input handed to the last decoding operation, with its origin
    res     \* the Result of the last fallible operation, or NoResult

vars == <<b, ctor, vs, origin, inp, res>>

----------------------------------------------------------------------------
(* Bounds of the model *)

\* longest signature the Builder is given, besides the 64-byte one
MaxSigLen == 1
\* longest attribute (signature_specific) list the Builder is given
MaxAttrs == 1
\* longest trailing data appended after an encoded value in a stream
MaxTail == 1
\* longest arbitrary byte buffer handed to the decoder
MaxBuf == 2
MaxPrefix == 8

----------------------------------------------------------------------------
(* Codec: the multicodec codes the crate names *)

Identity == 0
Varsigv1 == 52
Varsigv2 == 57
Raw == 85
Ed25519Pub == 237
Secp256K1Pub == 231
Keccak256 == 27
Eip191 == 57745
UnknownDEAD == 57005

SIGILV1 == Varsigv1
SIGILV2 == Varsigv2

\* Codec::default(): the first entry of the table
CodecDefault == Identity

\* Base: the multibase bases of the model, by name
Bases == {"Base16Lower", "Base16Upper", "Base58Btc"}

----------------------------------------------------------------------------
(* Sequences *)

RECURSIVE SeqsUpTo(_, _)
SeqsUpTo(S, n) ==
    IF n = 0 THEN {<<>>}
    ELSE LET shorter == SeqsUpTo(S, n - 1)
         IN  shorter \cup {Append(s, x) : s \in {t \in shorter : Len(t) = n - 1}, x \in S}

Zeros(n) == [i \in 1..n |-> 0]

Drop(s, n) == SubSeq(s, n + 1, Len(s))
Take(s, n) == SubSeq(s, 1, n)

RECURSIVE Flatten(_)
Flatten(ss) == IF ss = <<>> THEN <<>> ELSE Head(ss) \o Flatten(Tail(ss))

----------------------------------------------------------------------------
(* Varuint: unsigned LEB128, as the Codec encoding uses it *)

RECURSIVE VaruintEncode(_)
VaruintEncode(n) ==
    IF n < 128 THEN <<n>>
    ELSE <<(n % 128) + 128>> \o VaruintEncode(n \div 128)

\* decode at position i (0-based) with the value accumulated so far
RECURSIVE VaruintDecodeAt(_, _, _, _)
VaruintDecodeAt(bytes, i, acc, mul) ==
    IF i >= 10 THEN [ok |-> FALSE, err |-> "Overflow"]
    ELSE IF i >= Len(bytes) THEN [ok |-> FALSE, err |-> "Insufficient"]
    ELSE LET byte == bytes[i + 1]
         IN  IF byte < 128
             THEN IF byte = 0 /\ i > 0
                  THEN [ok |-> FALSE, err |-> "NotMinimal"]
                  ELSE [ok |-> TRUE, value |-> acc + byte * mul, rest |-> Drop(bytes, i + 1)]
             ELSE VaruintDecodeAt(bytes, i + 1, acc + (byte - 128) * mul, mul * 128)

VaruintDecode(bytes) == VaruintDecodeAt(bytes, 0, 0, 1)

\* Codec::encode_into
CodecEncode(c) == VaruintEncode(c)

\* Codec::try_decode_from: a varuint, then the table lookup (the table of this
\* revision has the Unknown(code) escape, so the lookup accepts every code)
CodecDecode(bytes) == VaruintDecode(bytes)

----------------------------------------------------------------------------
(* The Varsig value *)

NoVarsig == [variant |-> "None"]

EdDSA(sigil, string_encoding, encoding, signature) ==
    [variant |-> "EdDSA", sigil |-> sigil, string_encoding |-> string_encoding,
     encoding |-> encoding, signature |-> signature]

\* encoding is an Option<Codec>: [some |-> FALSE] or [some |-> TRUE, v |-> c]
None == [some |-> FALSE]
Some(c) == [some |-> TRUE, v |-> c]

Unknown(sigil, codec, string_encoding, encoding, signature_specific, signature) ==
    [variant |-> "Unknown", sigil |-> sigil, codec |-> codec,
     string_encoding |-> string_encoding, encoding |-> encoding,
     signature_specific |-> signature_specific, signature |-> signature]

\* #[derive(PartialEq)]: same variant and every field equal, the text base included
eq(v, w) == v = w

sigil(v) == v.sigil

codec(v) == IF v.variant = "Unknown" THEN v.codec ELSE Ed25519Pub

encoding(v) == IF v.variant = "Unknown" THEN v.encoding ELSE Some(v.encoding)

string_encoding(v) == v.string_encoding

\* a change of base that also empties the signature
set_string_encoding_clearing(v, e) == [v EXCEPT !.string_encoding = e, !.signature = <<>>]

set_string_encoding(v, e) == [v EXCEPT !.string_encoding = e]

signature(v) == v.signature

----------------------------------------------------------------------------
(* EncodeInto for Varsig *)

\* an encoding that writes the signature with its length in front
encode_into_length_prefixed(v) ==
    IF v.variant = "Unknown"
    THEN CodecEncode(v.sigil)
            \o CodecEncode(v.codec)
            \o (IF v.encoding.some THEN CodecEncode(v.encoding.v) ELSE <<>>)
            \o Flatten([i \in 1..Len(v.signature_specific) |->
                            CodecEncode(v.signature_specific[i])])
            \o VaruintEncode(Len(v.signature)) \o v.signature
    ELSE CodecEncode(v.sigil)
            \o CodecEncode(Ed25519Pub)
            \o CodecEncode(v.encoding)
            \o VaruintEncode(Len(v.signature)) \o v.signature

encode_into(v) ==
    IF v.variant = "Unknown"
    THEN CodecEncode(v.sigil)
            \o CodecEncode(v.codec)
            \o (IF v.encoding.some THEN CodecEncode(v.encoding.v) ELSE <<>>)
            \o Flatten([i \in 1..Len(v.signature_specific) |->
                            CodecEncode(v.signature_specific[i])])
            \o v.signature
    ELSE CodecEncode(v.sigil)
            \o CodecEncode(Ed25519Pub)
            \o CodecEncode(v.encoding)
            \o v.signature

----------------------------------------------------------------------------
(* TryDecodeFrom for Varsig *)

Err(e) == [ok |-> FALSE, err |-> e]
Ok(v, rest) == [ok |-> TRUE, value |-> v, rest |-> rest]

\* the Unknown arm: the encoding is read only under the v2 sigil
DecodeUnknown(sg, cd, ptr) ==
    IF sg = Varsigv1
    THEN Ok(Unknown(sg, cd, "Base16Lower", None, <<>>, ptr), ptr)
    ELSE IF sg = Varsigv2
    THEN LET e == CodecDecode(ptr)
         IN  IF ~e.ok THEN Err(e.err)
             ELSE Ok(Unknown(sg, cd, "Base16Lower", Some(e.value), <<>>, e.rest), e.rest)
    ELSE Err("MissingSigil")

\* the Ed25519Pub arm
DecodeEdDSA(sg, ptr) ==
    LET e == CodecDecode(ptr)
    IN  IF ~e.ok THEN Err(e.err)
        ELSE Ok(EdDSA(sg, "Base16Lower", e.value, e.rest), e.rest)

\* a decoder that reads a leading code that is no sigil as the v1 sigil
try_decode_from_coercing(bytes) ==
    LET s == CodecDecode(bytes)
    IN  IF ~s.ok THEN Err(s.err)
        ELSE LET sg == IF s.value # SIGILV1 /\ s.value # SIGILV2 THEN SIGILV1 ELSE s.value
                 c == CodecDecode(s.rest)
             IN  IF ~c.ok THEN Err(c.err)
                 ELSE IF c.value = Ed25519Pub
                      THEN DecodeEdDSA(sg, c.rest)
                      ELSE DecodeUnknown(sg, c.value, c.rest)

try_decode_from(bytes) ==
    LET s == CodecDecode(bytes)
    IN  IF ~s.ok THEN Err(s.err)
        ELSE IF s.value # SIGILV1 /\ s.value # SIGILV2 THEN Err("MissingSigil")
        ELSE LET c == CodecDecode(s.rest)
             IN  IF ~c.ok THEN Err(c.err)
                 ELSE IF c.value = Ed25519Pub
                      THEN DecodeEdDSA(s.value, c.rest)
                      ELSE DecodeUnknown(s.value, c.value, c.rest)

----------------------------------------------------------------------------
(* multibase: a text is the base's code character, then the digits *)

HexLower == <<"0", "1", "2", "3", "4", "5", "6", "7", "8", "9",
              "a", "b", "c", "d", "e", "f">>
HexUpper == <<"0", "1", "2", "3", "4", "5", "6", "7", "8", "9",
              "A", "B", "C", "D", "E", "F">>
Base58BtcAlphabet ==
    <<"1", "2", "3", "4", "5", "6", "7", "8", "9",
      "A", "B", "C", "D", "E", "F", "G", "H", "J", "K", "L", "M", "N", "P", "Q",
      "R", "S", "T", "U", "V", "W", "X", "Y", "Z",
      "a", "b", "c", "d", "e", "f", "g", "h", "i", "j", "k", "m", "n", "o", "p",
      "q", "r", "s", "t", "u", "v", "w", "x", "y", "z">>

BaseCode(base) ==
    CASE base = "Base16Lower" -> "f"
      [] base = "Base16Upper" -> "F"
      [] base = "Base58Btc" -> "z"

InAlphabet(alphabet, ch) == \E i \in 1..Len(alphabet) : alphabet[i] = ch
DigitOf(alphabet, ch) == (CHOOSE i \in 1..Len(alphabet) : alphabet[i] = ch) - 1

HexEncode(alphabet, bytes) ==
    [i \in 1..(2 * Len(bytes)) |->
        LET byte == bytes[(i + 1) \div 2]
        IN  alphabet[(IF i % 2 = 1 THEN byte \div 16 ELSE byte % 16) + 1]]

HexDecode(alphabet, digits) ==
    IF Len(digits) % 2 # 0 \/ \E i \in 1..Len(digits) : ~InAlphabet(alphabet, digits[i])
    THEN [ok |-> FALSE, err |-> "InvalidBaseString"]
    ELSE [ok |-> TRUE,
          bytes |-> [i \in 1..(Len(digits) \div 2) |->
                        16 * DigitOf(alphabet, digits[2 * i - 1])
                           + DigitOf(alphabet, digits[2 * i])]]

\* number of leading elements of s equal to x
LeadingCount(s, x) ==
    IF \A i \in 1..Len(s) : s[i] = x THEN Len(s)
    ELSE (CHOOSE i \in 1..Len(s) : s[i] # x /\ \A j \in 1..(i - 1) : s[j] = x) - 1

StripLeading(s, x) == Drop(s, LeadingCount(s, x))

\* one long division of the big-endian number ds (radix from) by the radix to:
\* the quotient digits (radix from) and the remainder
RECURSIVE LongDiv(_, _, _, _, _)
LongDiv(ds, from, to, rem, quot) ==
    IF ds = <<>> THEN [q |-> quot, r |-> rem]
    ELSE LET cur == rem * from + Head(ds)
         IN  LongDiv(Tail(ds), from, to, cur % to, Append(quot, cur \div to))

\* the big-endian number ds of radix from, written in radix to, no leading zero
RECURSIVE Radix(_, _, _)
Radix(ds, from, to) ==
    LET n == StripLeading(ds, 0)
    IN  IF n = <<>> THEN <<>>
        ELSE LET d == LongDiv(n, from, to, 0, <<>>)
             IN  Append(Radix(d.q, from, to), d.r)

\* the same number with its digits taken two at a time (radix r * r), and back
PairDigits(ds, r) ==
    LET even == IF Len(ds) % 2 = 1 THEN <<0>> \o ds ELSE ds
    IN  [i \in 1..(Len(even) \div 2) |-> even[2 * i - 1] * r + even[2 * i]]

UnpairDigits(ds, r) ==
    StripLeading([i \in 1..(2 * Len(ds)) |->
                    IF i % 2 = 1 THEN ds[(i + 1) \div 2] \div r ELSE ds[i \div 2] % r], 0)

\* the big-endian number ds of radix from in radix to, two digits in a step
Convert(ds, from, to) == UnpairDigits(Radix(PairDigits(ds, from), from * from, to * to), to)

\* base58: each leading zero byte is a "1", the rest is the number in radix 58
Base58Encode(bytes) ==
    LET z == LeadingCount(bytes, 0)
        ds == Convert(bytes, 256, 58)
    IN  [i \in 1..z |-> "1"] \o [i \in 1..Len(ds) |-> Base58BtcAlphabet[ds[i] + 1]]

Base58Decode(digits) ==
    IF \E i \in 1..Len(digits) : ~InAlphabet(Base58BtcAlphabet, digits[i])
    THEN [ok |-> FALSE, err |-> "InvalidBaseString"]
    ELSE LET ds == [i \in 1..Len(digits) |-> DigitOf(Base58BtcAlphabet, digits[i])]
             z == LeadingCount(ds, 0)
         IN  [ok |-> TRUE, bytes |-> Zeros(z) \o Convert(ds, 58, 256)]

multibase_encode(base, bytes) ==
    <<BaseCode(base)>> \o
        (CASE base = "Base16Lower" -> HexEncode(HexLower, bytes)
           [] base = "Base16Upper" -> HexEncode(HexUpper, bytes)
           [] base = "Base58Btc" -> Base58Encode(bytes))

multibase_decode(text) ==
    IF text = <<>> THEN [ok |-> FALSE, err |-> "InvalidBaseString"]
    ELSE IF \A base \in Bases : BaseCode(base) # Head(text)
    THEN [ok |-> FALSE, err |-> "UnknownBase"]
    ELSE LET base == CHOOSE x \in Bases : BaseCode(x) = Head(text)
             d == CASE base = "Base16Lower" -> HexDecode(HexLower, Tail(text))
                    [] base = "Base16Upper" -> HexDecode(HexUpper, Tail(text))
                    [] base = "Base58Btc" -> Base58Decode(Tail(text))
         IN  IF d.ok THEN [ok |-> TRUE, base |-> base, bytes |-> d.bytes] ELSE d

\* ToString for Varsig
to_string(v) == multibase_encode(string_encoding(v), encode_into(v))

\* a parser that leaves the decoded value under the decoder's base
try_from_str_dropping_base(s) ==
    LET m == multibase_decode(s)
    IN  IF ~m.ok THEN [ok |-> FALSE, err |-> "Multibase"]
        ELSE LET d == try_decode_from(m.bytes)
             IN  IF ~d.ok THEN d ELSE [ok |-> TRUE, value |-> d.value]

\* TryFrom<&str> for Varsig
try_from_str(s) ==
    LET m == multibase_decode(s)
    IN  IF ~m.ok THEN [ok |-> FALSE, err |-> "Multibase"]
        ELSE LET d == try_decode_from(m.bytes)
             IN  IF ~d.ok THEN d
                 ELSE [ok |-> TRUE, value |-> set_string_encoding(d.value, m.base)]

\* TryFrom<Vec<u8>> for Varsig
try_from_bytes(v) ==
    LET d == try_decode_from(v)
    IN  IF ~d.ok THEN d ELSE [ok |-> TRUE, value |-> d.value]

----------------------------------------------------------------------------
(* Builder *)

BuilderDefault ==
    [sigil |-> CodecDefault, codec |-> CodecDefault, string_encoding |-> None,
     encoding |-> CodecDefault, signature_specific |-> <<>>, signature |-> <<>>]

newv1 == [BuilderDefault EXCEPT !.sigil = Varsigv1]

newv2 == [BuilderDefault EXCEPT !.sigil = Varsigv1]

with_codec(bl, c) == [bl EXCEPT !.codec = c]

with_string_encoding(bl, base) == [bl EXCEPT !.string_encoding = Some(base)]

with_encoding(bl, c) == [bl EXCEPT !.encoding = c]

\* a setter that starts the attributes over when the signature is set
with_signature_bytes_clearing(bl, data) ==
    [bl EXCEPT !.signature = data, !.signature_specific = <<>>]

with_signature_bytes(bl, data) == [bl EXCEPT !.signature = data]

with_signature_specific(bl, data) == [bl EXCEPT !.signature_specific = data]

unwrap_or(opt, d) == IF opt.some THEN opt.v ELSE d

\* a build without the Ed25519Pub arm
build_without_eddsa(bl) ==
    Unknown(bl.sigil, bl.codec, unwrap_or(bl.string_encoding, "Base16Lower"),
            Some(bl.encoding), bl.signature_specific, bl.signature)

build(bl) ==
    IF bl.codec = Ed25519Pub
    THEN EdDSA(bl.sigil, unwrap_or(bl.string_encoding, "Base16Lower"),
               bl.encoding, bl.signature)
    ELSE Unknown(bl.sigil, bl.codec, unwrap_or(bl.string_encoding, "Base16Lower"),
                 Some(bl.encoding), bl.signature_specific, bl.signature)

----------------------------------------------------------------------------
(* TryFrom<&Signature> for Varsig *)

\* ssh_key::Algorithm and the name its to_string() gives
Algorithms == {"Dsa", "Ecdsa", "Ed25519", "Rsa", "SkEd25519"}

AlgorithmName(alg) ==
    CASE alg = "Dsa" -> "ssh-dss"
      [] alg = "Ecdsa" -> "ecdsa-sha2-nistp256"
      [] alg = "Ed25519" -> "ssh-ed25519"
      [] alg = "Rsa" -> "ssh-rsa"
      [] alg = "SkEd25519" -> "sk-ssh-ed25519@openssh.com"

\* a conversion whose error names the algorithm it supports, not the one given
try_from_signature_naming_ed25519(alg, bytes) ==
    IF alg = "Ed25519"
    THEN [ok |-> TRUE,
          value |-> build(with_signature_bytes(
                        with_encoding(with_codec(newv1, Ed25519Pub), Raw), bytes))]
    ELSE [ok |-> FALSE, err |-> "UnsupportedAlgorithm", name |-> AlgorithmName("Ed25519")]

try_from_signature(alg, bytes) ==
    IF alg = "Ed25519"
    THEN [ok |-> TRUE,
          value |-> build(with_signature_bytes(
                        with_encoding(with_codec(newv1, Ed25519Pub), Raw), bytes))]
    ELSE [ok |-> FALSE, err |-> "UnsupportedAlgorithm", name |-> AlgorithmName(alg)]

----------------------------------------------------------------------------
(* serde: the Varsig the adapter reads and writes *)

\* Varbytes: a varuint length, then that many bytes
VarbytesEncode(bytes) == VaruintEncode(Len(bytes)) \o bytes

VarbytesDecode(bytes) ==
    LET n == VaruintDecode(bytes)
    IN  IF ~n.ok THEN n
        ELSE IF Len(n.rest) < n.value THEN [ok |-> FALSE, err |-> "Insufficient"]
        ELSE [ok |-> TRUE, value |-> Take(n.rest, n.value), rest |-> Drop(n.rest, n.value)]

\* EncodedVaruint / EncodedVarbytes: the encoded bytes as a base16 multibase text
EncodedVaruint(n) == multibase_encode("Base16Lower", VaruintEncode(n))
EncodedVarbytes(bytes) == multibase_encode("Base16Lower", VarbytesEncode(bytes))

EncodedVaruintToInner(text) ==
    LET m == multibase_decode(text)
    IN  IF ~m.ok THEN [ok |-> FALSE, err |-> m.err] ELSE VaruintDecode(m.bytes)

EncodedVarbytesToInner(text) ==
    LET m == multibase_decode(text)
    IN  IF ~m.ok THEN [ok |-> FALSE, err |-> m.err] ELSE VarbytesDecode(m.bytes)

\* the accessors the adapter calls: the attribute list (none for EdDSA) and the
\* payload encoding, raw when the value holds none
attributes(v) == IF v.variant = "Unknown" THEN v.signature_specific ELSE <<>>

payload_encoding(v) == IF v.variant = "Unknown" THEN unwrap_or(v.encoding, Raw) ELSE v.encoding

\* the value as the adapter's revision of the type holds it: the text base is
\* not a field of the value
VarsigData(v) ==
    IF v.variant = "Unknown"
    THEN [variant |-> "Unknown", sigil |-> v.sigil, codec |-> v.codec,
          encoding |-> v.encoding, signature_specific |-> v.signature_specific,
          signature |-> v.signature]
    ELSE [variant |-> "EdDSA", sigil |-> v.sigil, encoding |-> v.encoding,
          signature |-> v.signature]

\* Serialize for Varsig, human-readable: a struct of five named fields
serialize_readable(v) ==
    IF sigil(v) \notin {Varsigv1, Varsigv2}
    THEN [ok |-> FALSE, err |-> "invalid sigil"]
    ELSE [ok |-> TRUE,
          doc |-> << [key |-> "version", val |-> IF sigil(v) = Varsigv1 THEN 1 ELSE 2],
                     [key |-> "codec", val |-> codec(v)],
                     [key |-> "encoding", val |-> payload_encoding(v)],
                     [key |-> "attributes",
                      val |-> [i \in 1..Len(attributes(v)) |-> EncodedVaruint(attributes(v)[i])]],
                     [key |-> "signature", val |-> EncodedVarbytes(signature(v))] >>]

\* a compact form that writes the default Codec where the value holds no encoding
serialize_compact_default_codec(v) ==
    [ok |-> TRUE,
     doc |-> << CodecEncode(sigil(v)),
                CodecEncode(codec(v)),
                CodecEncode(unwrap_or(encoding(v), CodecDefault)),
                [i \in 1..Len(attributes(v)) |-> VaruintEncode(attributes(v)[i])],
                VarbytesEncode(signature(v)) >>]

\* Serialize for Varsig, compact: a 5-tuple of encoded elements
serialize_compact(v) ==
    [ok |-> TRUE,
     doc |-> << CodecEncode(sigil(v)),
                CodecEncode(codec(v)),
                CodecEncode(payload_encoding(v)),
                [i \in 1..Len(attributes(v)) |-> VaruintEncode(attributes(v)[i])],
                VarbytesEncode(signature(v)) >>]

\* a construction that loses the attributes of an Unknown value
FromFields_without_attributes(sg, cd, msg_encoding, attrs, sig) ==
    IF cd = Ed25519Pub
    THEN [variant |-> "EdDSA", sigil |-> sg, encoding |-> msg_encoding, signature |-> sig]
    ELSE [variant |-> "Unknown", sigil |-> sg, codec |-> cd, encoding |-> Some(msg_encoding),
          signature_specific |-> <<>>, signature |-> sig]

\* a construction that builds the catch-all variant for every key codec
FromFields_always_unknown(sg, cd, msg_encoding, attrs, sig) ==
    [variant |-> "Unknown", sigil |-> sg, codec |-> cd, encoding |-> Some(msg_encoding),
     signature_specific |-> attrs, signature |-> sig]

\* the value both branches of deserialize construct from the decoded fields
FromFields(sg, cd, msg_encoding, attrs, sig) ==
    IF cd = Ed25519Pub
    THEN [variant |-> "EdDSA", sigil |-> sg, encoding |-> msg_encoding, signature |-> sig]
    ELSE [variant |-> "Unknown", sigil |-> sg, codec |-> cd, encoding |-> Some(msg_encoding),
          signature_specific |-> attrs, signature |-> sig]

\* all elements of a sequence of results are ok
AllOk(rs) == \A i \in 1..Len(rs) : rs[i].ok
FirstErr(rs) == rs[CHOOSE i \in 1..Len(rs) : ~rs[i].ok /\ \A j \in 1..(i - 1) : rs[j].ok].err

FieldNames == {"version", "codec", "encoding", "attributes", "signature"}

\* a visitor that lets a repeated field replace the earlier one
VisitEntry_last_wins(seen, e) ==
    LET rest == [k \in DOMAIN seen \ {e.key} |-> seen[k]]
    IN  IF e.key = "version"
        THEN IF e.val = 1 THEN [ok |-> TRUE, seen |-> rest @@ [version |-> SIGILV1]]
             ELSE IF e.val = 2 THEN [ok |-> TRUE, seen |-> rest @@ [version |-> SIGILV2]]
             ELSE [ok |-> FALSE, err |-> "invlid Varsig version"]
        ELSE IF e.key = "codec" THEN [ok |-> TRUE, seen |-> rest @@ [codec |-> e.val]]
        ELSE IF e.key = "encoding" THEN [ok |-> TRUE, seen |-> rest @@ [encoding |-> e.val]]
        ELSE IF e.key = "attributes"
        THEN [ok |-> TRUE,
              seen |-> rest @@ [attributes |->
                          [i \in 1..Len(e.val) |-> EncodedVaruintToInner(e.val[i]).value]]]
        ELSE [ok |-> TRUE, seen |-> rest @@ [signature |-> EncodedVarbytesToInner(e.val).value]]

\* VarsigVisitor::visit_map: one entry of the map, given the fields seen so far
VisitEntry(seen, e) ==
    IF e.key \notin FieldNames THEN [ok |-> FALSE, err |-> "unknown field"]
    ELSE IF e.key \in DOMAIN seen THEN [ok |-> FALSE, err |-> "duplicate field", name |-> e.key]
    ELSE IF e.key = "version"
    THEN IF e.val = 1 THEN [ok |-> TRUE, seen |-> seen @@ [version |-> SIGILV1]]
         ELSE IF e.val = 2 THEN [ok |-> TRUE, seen |-> seen @@ [version |-> SIGILV2]]
         ELSE [ok |-> FALSE, err |-> "invlid Varsig version"]
    ELSE IF e.key = "codec" THEN [ok |-> TRUE, seen |-> seen @@ [codec |-> e.val]]
    ELSE IF e.key = "encoding" THEN [ok |-> TRUE, seen |-> seen @@ [encoding |-> e.val]]
    ELSE IF e.key = "attributes"
    THEN LET rs == [i \in 1..Len(e.val) |-> EncodedVaruintToInner(e.val[i])]
         IN  IF AllOk(rs)
             THEN [ok |-> TRUE,
                   seen |-> seen @@ [attributes |-> [i \in 1..Len(rs) |-> rs[i].value]]]
             ELSE [ok |-> FALSE, err |-> FirstErr(rs)]
    ELSE LET r == EncodedVarbytesToInner(e.val)
         IN  IF r.ok THEN [ok |-> TRUE, seen |-> seen @@ [signature |-> r.value]]
             ELSE [ok |-> FALSE, err |-> r.err]

RECURSIVE VisitMap(_, _)
VisitMap(seen, entries) ==
    IF entries = <<>>
    THEN IF "version" \notin DOMAIN seen
         THEN [ok |-> FALSE, err |-> "missing field", name |-> "version"]
         ELSE IF "codec" \notin DOMAIN seen
         THEN [ok |-> FALSE, err |-> "missing field", name |-> "codec"]
         ELSE IF "encoding" \notin DOMAIN seen
         THEN [ok |-> FALSE, err |-> "missing field", name |-> "encoding"]
         ELSE IF "attributes" \notin DOMAIN seen
         THEN [ok |-> FALSE, err |-> "missing field", name |-> "attributes"]
         ELSE IF "signature" \notin DOMAIN seen
         THEN [ok |-> FALSE, err |-> "missing field", name |-> "signature"]
         ELSE [ok |-> TRUE,
               value |-> FromFields(seen.version, seen.codec, seen.encoding,
                                    seen.attributes, seen.signature)]
    ELSE LET r == VisitEntry(seen, Head(entries))
         IN  IF r.ok THEN VisitMap(r.seen, Tail(entries)) ELSE r

\* Deserialize for Varsig, human-readable
deserialize_readable(doc) == VisitMap(<<>>, doc)

\* Deserialize for Varsig, compact
deserialize_compact(doc) ==
    LET sg == CodecDecode(doc[1])
        cd == CodecDecode(doc[2])
        en == CodecDecode(doc[3])
        at == [i \in 1..Len(doc[4]) |-> VaruintDecode(doc[4][i])]
        sig == VarbytesDecode(doc[5])
    IN  IF ~sg.ok THEN [ok |-> FALSE, err |-> sg.err]
        ELSE IF ~cd.ok THEN [ok |-> FALSE, err |-> cd.err]
        ELSE IF ~en.ok THEN [ok |-> FALSE, err |-> en.err]
        ELSE IF ~AllOk(at) THEN [ok |-> FALSE, err |-> FirstErr(at)]
        ELSE IF ~sig.ok THEN [ok |-> FALSE, err |-> sig.err]
        ELSE IF sg.value # SIGILV1 /\ sg.value # SIGILV2
        THEN [ok |-> FALSE, err |-> "deserialized sigil is not a Varsig sigil"]
        ELSE [ok |-> TRUE,
              value |-> FromFields(sg.value, cd.value, en.value,
                                   [i \in 1..Len(at) |-> at[i].value], sig.value)]

----------------------------------------------------------------------------
(* Inputs *)

KeyCodecs == {Ed25519Pub, Secp256K1Pub, UnknownDEAD}
PayloadEncodings == {Raw, Eip191}
AttrCodes == {Keccak256, Raw}
SigBytes == {0, 237}
TailBytes == {0, 52}
BufBytes == {0, 1, 52, 57, 128, 237}

\* the size of an ed25519 signature
Ed25519SigLen == 64

Signatures == SeqsUpTo(SigBytes, MaxSigLen) \cup {Zeros(Ed25519SigLen)}
AttrLists == SeqsUpTo(AttrCodes, MaxAttrs)
Tails == SeqsUpTo(TailBytes, MaxTail)

\* envelopes as a peer writes them: sigil, key codec, payload encoding, signature
PeerBufs ==
    {CodecEncode(sg) \o CodecEncode(cd) \o CodecEncode(e) \o sig :
        sg \in {Varsigv1, Varsigv2}, cd \in {Ed25519Pub, Secp256K1Pub},
        e \in {Raw}, sig \in SeqsUpTo(SigBytes, MaxSigLen)}

\* the values a caller writes as enum literals (the variants' fields are public)
Literals ==
    {EdDSA(sg, base, e, sig) :
        sg \in {SIGILV1, SIGILV2}, base \in Bases, e \in PayloadEncodings,
        sig \in Signatures}
    \cup
    {Unknown(sg, cd, base, e, attrs, sig) :
        sg \in {SIGILV1, SIGILV2}, cd \in KeyCodecs \ {Ed25519Pub}, base \in Bases,
        e \in {None} \cup {Some(c) : c \in PayloadEncodings},
        attrs \in AttrLists, sig \in Signatures}

\* an envelope in the layout of the encoded test string: sigil v2, key codec,
\* payload encoding, attribute count, attributes, signature length, signature
PeerEnvelopeV2(cd, e, attrs, sig) ==
    VaruintEncode(Varsigv2) \o VaruintEncode(cd) \o VaruintEncode(e)
        \o VaruintEncode(Len(attrs))
        \o Flatten([i \in 1..Len(attrs) |-> VaruintEncode(attrs[i])])
        \o VarbytesEncode(sig)

PeerBufsV2 ==
    {PeerEnvelopeV2(cd, e, attrs, sig) :
        cd \in {Secp256K1Pub}, e \in {Raw}, attrs \in AttrLists,
        sig \in SeqsUpTo(SigBytes, MaxSigLen)}

\* the buffers handed to the decoder that no encode_into of this model wrote
WireInputs == SeqsUpTo(BufBytes, MaxBuf) \cup PeerBufs \cup PeerBufsV2

\* a human-readable document with all five fields, in the order of FIELDS
ReadableDoc(version, cd) ==
    << [key |-> "version", val |-> version],
       [key |-> "codec", val |-> cd],
       [key |-> "encoding", val |-> Raw],
       [key |-> "attributes", val |-> <<>>],
       [key |-> "signature", val |-> EncodedVarbytes(<<0>>)] >>

\* s without its i-th element
Without(s, i) == Take(s, i - 1) \o Drop(s, i)

DocVersions == {0, 1, 2, 3}

\* the human-readable documents from elsewhere: whole ones of any version
\* number, ones with a field left out, and ones with a field given twice
ReadableDocs ==
    LET whole == {ReadableDoc(n, cd) : n \in DocVersions, cd \in {Ed25519Pub, Secp256K1Pub}}
        sound == {ReadableDoc(n, cd) : n \in {1, 2}, cd \in {Ed25519Pub, Secp256K1Pub}}
    IN  whole
        \cup {Without(d, i) : d \in sound, i \in 1..5}
        \cup {d \o <<d[i]>> : d \in sound, i \in 1..5}
        \cup {<<d[i]>> \o d : d \in sound, i \in 1..5}

\* the compact documents from elsewhere: 5-tuples led by any code
CompactDocs ==
    {<< CodecEncode(sg), CodecEncode(cd), CodecEncode(Raw), <<>>, VarbytesEncode(<<0>>) >> :
        sg \in {Identity, Varsigv1, Varsigv2, Raw, Ed25519Pub},
        cd \in {Ed25519Pub, Secp256K1Pub}}

----------------------------------------------------------------------------
(* State machine *)

NoInput == [kind |-> "none"]
NoResult == [op |-> "none"]

Init ==
    /\ b = BuilderDefault
    /\ ctor = "default"
    /\ vs = NoVarsig
    /\ origin = "none"
    /\ inp = NoInput
    /\ res = NoResult

\* a change of the Builder starts a new value
Configure(bl, c) ==
    /\ b' = bl
    /\ ctor' = c
    /\ vs' = NoVarsig
    /\ origin' = "none"
    /\ inp' = NoInput
    /\ res' = NoResult

NewV1 == Configure(newv1, "newv1")

NewV2 == Configure(newv2, "newv2")

\* the setters are chained on the Builder before its value is put to use
Chaining == inp = NoInput /\ res = NoResult

\* one use of a value at a time: the value at hand has just been built,
\* converted or decoded
Fresh ==
    /\ vs # NoVarsig
    /\ Chaining \/ res.op \in {"try_from_bytes", "try_from_signature"}

WithCodec == Chaining /\ \E c \in KeyCodecs : Configure(with_codec(b, c), ctor)

WithStringEncoding ==
    Chaining /\ \E base \in Bases : Configure(with_string_encoding(b, base), ctor)

WithEncoding ==
    Chaining /\ \E c \in PayloadEncodings : Configure(with_encoding(b, c), ctor)

WithSignatureBytes ==
    Chaining /\ \E data \in Signatures : Configure(with_signature_bytes(b, data), ctor)

WithSignatureSpecific ==
    Chaining /\ \E data \in AttrLists : Configure(with_signature_specific(b, data), ctor)

\* b.build(): &self, so the Builder can build again
Build ==
    /\ vs = NoVarsig \/ origin = "build"
    /\ vs' = build(b)
    /\ origin' = "build"
    /\ inp' = NoInput
    /\ res' = NoResult
    /\ UNCHANGED <<b, ctor>>

\* Varsig::EdDSA { .. } / Varsig::Unknown { .. } written out by the caller
Construct ==
    /\ vs = NoVarsig
    /\ b = BuilderDefault
    /\ Chaining
    /\ \E v \in Literals : vs' = v
    /\ origin' = "literal"
    /\ UNCHANGED <<b, ctor, inp, res>>

\* vs.encode_into(), possibly followed by more data of a larger stream
Encode ==
    /\ Fresh
    /\ \E t \in Tails :
        inp' = [kind |-> "wire", bytes |-> encode_into(vs) \o t, of |-> vs, tail |-> t]
    /\ res' = NoResult
    /\ UNCHANGED <<b, ctor, vs, origin>>

\* the encoding of vs cut short: a strict prefix of vs.encode_into()
EncodeTruncated ==
    /\ Fresh
    /\ LET bytes == encode_into(vs)
       IN  \E n \in 0..(Len(bytes) - 1) :
            /\ n <= MaxPrefix
            /\ inp' = [kind |-> "truncated", bytes |-> Take(bytes, n), of |-> vs]
    /\ res' = NoResult
    /\ UNCHANGED <<b, ctor, vs, origin>>

\* a buffer from elsewhere arrives
Feed ==
    /\ vs = NoVarsig
    /\ b = BuilderDefault
    /\ \E bytes \in WireInputs :
        inp' = [kind |-> "wire", bytes |-> bytes, of |-> NoVarsig, tail |-> <<>>]
    /\ res' = NoResult
    /\ UNCHANGED <<b, ctor, vs, origin>>

\* Varsig::try_decode_from(inp.bytes)
Decode ==
    /\ inp.kind \in {"wire", "truncated"}
    /\ res = NoResult
    /\ res' = [op |-> "try_decode_from"] @@ try_decode_from(inp.bytes)
    /\ UNCHANGED <<b, ctor, vs, origin, inp>>

\* Varsig::try_from(inp.bytes): the decoded value becomes the value at hand
TryFromBytes ==
    /\ inp.kind = "wire"
    /\ inp.of = NoVarsig
    /\ res = NoResult
    /\ LET r == try_from_bytes(inp.bytes)
       IN  /\ res' = [op |-> "try_from_bytes"] @@ r
           /\ vs' = IF r.ok THEN r.value ELSE vs
           /\ origin' = IF r.ok THEN "decoded" ELSE origin
    /\ UNCHANGED <<b, ctor, inp>>

\* vs.set_string_encoding(base): the value at hand is changed in place; inp
\* keeps the value as it was before the call
SetStringEncoding ==
    /\ Fresh
    /\ \E base \in Bases :
        /\ vs' = set_string_encoding(vs, base)
        /\ inp' = [kind |-> "base", base |-> base, of |-> vs]
    /\ origin' = "rebased"
    /\ res' = [op |-> "set_string_encoding"]
    /\ UNCHANGED <<b, ctor>>

\* vs.to_string()
Stringify ==
    /\ Fresh
    /\ inp' = [kind |-> "text", text |-> to_string(vs), of |-> vs]
    /\ res' = NoResult
    /\ UNCHANGED <<b, ctor, vs, origin>>

\* Varsig::try_from(inp.text)
TryFromStr ==
    /\ inp.kind = "text"
    /\ res = NoResult
    /\ res' = [op |-> "try_from_str"] @@ try_from_str(inp.text)
    /\ UNCHANGED <<b, ctor, vs, origin, inp>>

\* Varsig::try_from(&signature): the conversion reads no Builder of the caller
TryFromSignature ==
    /\ vs = NoVarsig
    /\ b = BuilderDefault
    /\ \E alg \in Algorithms, bytes \in Signatures :
        LET r == try_from_signature(alg, bytes)
        IN  /\ inp' = [kind |-> "signature", alg |-> alg, bytes |-> bytes]
            /\ res' = [op |-> "try_from_signature"] @@ r
            /\ vs' = IF r.ok THEN r.value ELSE vs
            /\ origin' = IF r.ok THEN "signature" ELSE origin
    /\ UNCHANGED <<b, ctor>>

\* vs.serialize(serializer), in either mode
Serialize ==
    /\ Fresh
    /\ \E mode \in {"readable", "compact"} :
        LET r == IF mode = "readable" THEN serialize_readable(vs) ELSE serialize_compact(vs)
        IN  IF r.ok
            THEN /\ inp' = [kind |-> mode, doc |-> r.doc, of |-> vs]
                 /\ res' = NoResult
            ELSE /\ inp' = [kind |-> "none", of |-> vs]
                 /\ res' = [op |-> "serialize", mode |-> mode] @@ r
    /\ UNCHANGED <<b, ctor, vs, origin>>

\* a serialized document from elsewhere arrives
FeedDoc ==
    /\ vs = NoVarsig
    /\ b = BuilderDefault
    /\ \/ \E doc \in ReadableDocs : inp' = [kind |-> "readable", doc |-> doc, of |-> NoVarsig]
       \/ \E doc \in CompactDocs : inp' = [kind |-> "compact", doc |-> doc, of |-> NoVarsig]
    /\ res' = NoResult
    /\ UNCHANGED <<b, ctor, vs, origin>>

\* Varsig::deserialize(deserializer), in the mode of the document
Deserialize ==
    /\ inp.kind \in {"readable", "compact"}
    /\ res = NoResult
    /\ res' = [op |-> "deserialize"] @@
                (IF inp.kind = "readable" THEN deserialize_readable(inp.doc)
                                          ELSE deserialize_compact(inp.doc))
    /\ UNCHANGED <<b, ctor, vs, origin, inp>>

Next ==
    \/ NewV1
    \/ NewV2
    \/ WithCodec
    \/ WithStringEncoding
    \/ WithEncoding
    \/ WithSignatureBytes
    \/ WithSignatureSpecific
    \/ Build
    \/ Construct
    \/ Encode
    \/ EncodeTruncated
    \/ Feed
    \/ Decode
    \/ TryFromBytes
    \/ SetStringEncoding
    \/ Stringify
    \/ TryFromStr
    \/ TryFromSignature
    \/ Serialize
    \/ FeedDoc
    \/ Deserialize

Spec == Init /\ [][Next]_vars

----------------------------------------------------------------------------
(* Properties *)

Sigils == {Varsigv1, Varsigv2}

\* the value at hand was built by the Builder as it stands
Built == origin = "build"

\* the input is the wire encoding of a value, and it has been decoded
WireDecoded == inp.kind = "wire" /\ inp.of # NoVarsig /\ res.op = "try_decode_from"

\* the input is the text of a value, and it has been parsed
TextParsed == inp.kind = "text" /\ res.op = "try_from_str"

\* the input is a serialized value, and it has been deserialized
Deserialized ==
    inp.kind \in {"readable", "compact"} /\ inp.of # NoVarsig /\ res.op = "deserialize"

\* C1: wire round trip: decoding the encoding of a value the Builder built
\* (sigil v1 or v2, either variant, any encoding, attributes and signature)
\* succeeds and returns an equal value.
C1_WireRoundTrip ==
    (Built /\ WireDecoded /\ inp.tail = <<>> /\ sigil(inp.of) \in Sigils)
        => (res.ok /\ res.value = inp.of)

\* C2: text round trip: parsing the text of a valid value, in any base, succeeds
\* and returns an equal value.
C2_TextRoundTrip ==
    (Built /\ TextParsed /\ sigil(inp.of) \in Sigils)
        => (res.ok /\ res.value = inp.of)

C4_BuilderPinned ==
    Built =>
        /\ ctor = "newv1" => sigil(vs) = Varsigv1
        /\ ctor = "newv2" => (sigil(vs) = Varsigv2
                                /\ serialize_readable(vs).ok
                                /\ serialize_readable(vs).doc[1].val = 2)

\* C5: EdDSA fast path: a Builder whose key codec is Ed25519Pub builds the EdDSA
\* variant, whatever its other fields; the attributes given to it are neither
\* in the value nor in its wire encoding.
C5_EdDSAFastPath ==
    (Built /\ b.codec = Ed25519Pub) =>
        /\ vs.variant = "EdDSA"
        /\ codec(vs) = Ed25519Pub
        /\ "signature_specific" \notin DOMAIN vs
        /\ (inp.kind = "wire" =>
                inp.bytes = CodecEncode(b.sigil) \o CodecEncode(Ed25519Pub)
                                \o CodecEncode(b.encoding) \o b.signature \o inp.tail)

\* an Ed25519Pub Builder that was given attributes has built and encoded
C5_Witness ==
    /\ Built /\ b.codec = Ed25519Pub /\ b.signature_specific # <<>>
    /\ inp.kind = "wire"

\* C6: converting an Ed25519 signature gives the EdDSA variant of sigil v2, with
\* the raw payload encoding and the bytes of the signature.
C6_FromEd25519Signature ==
    (res.op = "try_from_signature" /\ inp.alg = "Ed25519") =>
        /\ res.ok
        /\ res.value.variant = "EdDSA"
        /\ sigil(res.value) = Varsigv2
        /\ encoding(res.value) = Some(Raw)
        /\ signature(res.value) = inp.bytes

\* C7: converting a signature of any other algorithm fails with
\* UnsupportedAlgorithm naming that algorithm, and gives no value.
C7_UnsupportedAlgorithm ==
    (res.op = "try_from_signature" /\ inp.alg # "Ed25519") =>
        /\ ~res.ok
        /\ res.err = "UnsupportedAlgorithm"
        /\ res.name = AlgorithmName(inp.alg)
        /\ "value" \notin DOMAIN res
        /\ vs = NoVarsig

\* an RSA signature was refused
C7_Witness ==
    res.op = "try_from_signature" /\ inp.alg = "Rsa" /\ ~res.ok

\* the leading varuint of the input is a code that is no sigil
LeadsWithNonSigil ==
    VaruintDecode(inp.bytes).ok /\ VaruintDecode(inp.bytes).value \notin Sigils

\* C8: malformed input: decoding an empty buffer fails with the error of the
\* varuint primitive, decoding a buffer whose leading code is no sigil fails
\* with MissingSigil or InvalidVersion; neither returns a value.
C8_MalformedRejected ==
    (inp.kind = "wire" /\ res.op \in {"try_decode_from", "try_from_bytes"}) =>
        /\ inp.bytes = <<>> =>
                (~res.ok /\ res.err = "Insufficient" /\ "value" \notin DOMAIN res)
        /\ LeadsWithNonSigil =>
                (~res.ok /\ res.err \in {"MissingSigil", "InvalidVersion"}
                    /\ "value" \notin DOMAIN res)
        /\ (~res.ok /\ res.op = "try_from_bytes") => vs = NoVarsig

\* a buffer of a non-sigil code followed by more bytes was refused
C8_Witness ==
    /\ inp.kind = "wire" /\ res.op = "try_decode_from"
    /\ LeadsWithNonSigil /\ Len(inp.bytes) > 1 /\ ~res.ok

\* the Builder of scenario A: newv2, Ed25519Pub, 64 zero bytes, no other setter
ScenarioA ==
    /\ Built /\ ctor = "newv2"
    /\ b = with_signature_bytes(with_codec(newv2, Ed25519Pub), Zeros(Ed25519SigLen))

\* C9: scenario A encodes to the v2 sigil, the Ed25519Pub code, the raw code,
\* the length 64 and 64 zero bytes, and decoding those bytes gives an equal EdDSA
\* value.
C9_ScenarioA ==
    (ScenarioA /\ inp.kind = "wire" /\ inp.tail = <<>>) =>
        /\ inp.bytes = VaruintEncode(Varsigv2) \o VaruintEncode(Ed25519Pub)
                        \o VaruintEncode(Raw) \o VaruintEncode(Ed25519SigLen)
                        \o Zeros(Ed25519SigLen)
        /\ res.op = "try_decode_from" =>
                (res.ok /\ res.value = inp.of /\ res.value.variant = "EdDSA")

\* C10: v2 stream safety: decoding the encoding of a v2 value followed by more
\* data returns the value and exactly that data.
C10_StreamSafety ==
    (WireDecoded /\ sigil(inp.of) = Varsigv2) =>
        (res.ok /\ res.value = inp.of /\ res.rest = inp.tail)

\* the Builder of scenario B: newv2, Secp256K1Pub, Eip191, [Keccak256], 64 zero bytes
ScenarioB ==
    /\ Built /\ ctor = "newv2"
    /\ b = with_signature_bytes(
              with_signature_specific(
                  with_encoding(with_codec(newv2, Secp256K1Pub), Eip191),
                  <<Keccak256>>),
              Zeros(Ed25519SigLen))

\* C11: v2 Unknown layout: decoding a v2 buffer whose key code is not Ed25519Pub
\* reads the payload encoding, an attribute count n, n attribute codes and a
\* length-prefixed signature, and returns Unknown with exactly those; the
\* scenario B value round-trips to an equal Unknown value with one attribute.
C11_V2UnknownLayout ==
    /\ (inp.kind = "wire" /\ res.op = "try_decode_from") =>
            \A cd \in KeyCodecs \ {Ed25519Pub}, e \in PayloadEncodings,
               attrs \in AttrLists, sig \in Signatures :
                inp.bytes = PeerEnvelopeV2(cd, e, attrs, sig) =>
                    /\ res.ok
                    /\ res.value = Unknown(Varsigv2, cd, "Base16Lower", Some(e), attrs, sig)
    /\ (ScenarioB /\ WireDecoded /\ inp.tail = <<>>) =>
            /\ res.ok /\ res.value = inp.of
            /\ res.value.variant = "Unknown"
            /\ Len(res.value.signature_specific) = 1

\* the value of scenario A
ScenarioAValue ==
    build(with_signature_bytes(with_codec(newv2, Ed25519Pub), Zeros(Ed25519SigLen)))

\* C12: equality ignores the text base: a value compares equal to the same value
\* under any other base; the texts of the scenario A value under two bases
\* differ, and their parsed values are equal to each other and to the original.
C12_EqualityIgnoresBase ==
    /\ vs # NoVarsig => \A base \in Bases : eq(set_string_encoding(vs, base), vs)
    /\ (TextParsed /\ \E base \in Bases : inp.of = set_string_encoding(ScenarioAValue, base)) =>
            /\ res.ok
            /\ eq(res.value, ScenarioAValue)
            /\ \A base \in Bases \ {string_encoding(inp.of)} :
                    LET text == to_string(set_string_encoding(inp.of, base))
                    IN  /\ text # inp.text
                        /\ try_from_str(text).ok
                        /\ eq(try_from_str(text).value, res.value)

\* C13: v1 EdDSA layout: decoding a v1 buffer whose key code is Ed25519Pub gives
\* an EdDSA value whose signature is exactly the 64 bytes after the payload
\* encoding; the bytes after those 64 are not part of the signature.
C13_V1EdDSALayout ==
    (/\ WireDecoded /\ inp.of.variant = "EdDSA" /\ sigil(inp.of) = Varsigv1
     /\ Len(signature(inp.of)) = Ed25519SigLen) =>
        LET header == CodecEncode(Varsigv1) \o CodecEncode(Ed25519Pub)
                        \o CodecEncode(inp.of.encoding)
        IN  /\ res.ok
            /\ res.value.variant = "EdDSA"
            /\ signature(res.value) = Take(Drop(inp.bytes, Len(header)), Ed25519SigLen)
            /\ Len(signature(res.value)) = Ed25519SigLen

\* C14: truncation is an error, never a partial value: decoding a strict prefix
\* of the encoding of a v2 value, or of a v1 EdDSA value, returns an error and
\* no value.
C14_TruncationRejected ==
    (/\ inp.kind = "truncated" /\ res.op = "try_decode_from"
     /\ \/ sigil(inp.of) = Varsigv2
        \/ sigil(inp.of) = Varsigv1 /\ inp.of.variant = "EdDSA"
                /\ Len(signature(inp.of)) = Ed25519SigLen) =>
        (~res.ok /\ "value" \notin DOMAIN res)

\* the deserializer returned an error and no value
Rejected == ~res.ok /\ "value" \notin DOMAIN res

RepeatsField == \E i, j \in 1..Len(inp.doc) : i # j /\ inp.doc[i].key = inp.doc[j].key
OmitsField == \E f \in FieldNames : \A i \in 1..Len(inp.doc) : inp.doc[i].key # f
BadVersion == \E i \in 1..Len(inp.doc) : inp.doc[i].key = "version" /\ inp.doc[i].val \notin {1, 2}

\* C15: structured deserialization rejects bad input: a human-readable document
\* that repeats a field, omits a field or has a version other than 1 and 2, and
\* a compact tuple whose first element is not a sigil, are errors with no value.
C15_BadDocumentRejected ==
    (inp.kind \in {"readable", "compact"} /\ res.op = "deserialize") =>
        /\ (inp.kind = "readable" /\ (RepeatsField \/ OmitsField \/ BadVersion)) => Rejected
        /\ (/\ inp.kind = "compact"
            /\ ~(CodecDecode(inp.doc[1]).ok /\ CodecDecode(inp.doc[1]).value \in Sigils))
                => Rejected

\* a document with all five fields, one of them twice, was refused
C15_Witness ==
    /\ inp.kind = "readable" /\ res.op = "deserialize"
    /\ RepeatsField /\ ~OmitsField /\ ~BadVersion
    /\ ~res.ok /\ res.err = "duplicate field"

\* C16: every value obtained through the public operations (any Builder
\* constructor, the derived default one included, followed by build; wire
\* decode; text decode; either deserialization) has sigil v1 or v2.
C16_SigilValid ==
    /\ vs # NoVarsig => sigil(vs) \in Sigils
    /\ (/\ res.op \in {"try_decode_from", "try_from_bytes", "try_from_str", "deserialize"}
        /\ res.ok) => sigil(res.value) \in Sigils

\* the value at hand was decoded from a v1 Unknown layout, which carries no
\* payload encoding
LegacyUnknown == origin = "decoded" /\ vs.variant = "Unknown" /\ sigil(vs) = Varsigv1

\* the payload encoding an EdDSA value was built or decoded with
ExplicitEncoding ==
    IF origin = "build" THEN b.encoding
    ELSE IF res.op = "try_from_bytes" THEN CodecDecode(Drop(inp.bytes, 3)).value
    ELSE vs.encoding

PrefixBase(text) == CHOOSE base \in Bases : BaseCode(base) = Head(text)

\* C18: text base tracking: a value built without a text base, or decoded from
\* bytes, has base Base16Lower; a value parsed from a text holds the base of the
\* text's prefix; to_string writes under the value's base, so the text of a
\* parsed value starts with the prefix of the text it was parsed from.
C18_TextBaseTracking ==
    /\ (Built /\ ~b.string_encoding.some) => string_encoding(vs) = "Base16Lower"
    /\ (Built /\ b.string_encoding.some) => string_encoding(vs) = b.string_encoding.v
    /\ (res.op \in {"try_decode_from", "try_from_bytes"} /\ res.ok) =>
            string_encoding(res.value) = "Base16Lower"
    /\ inp.kind = "text" =>
            /\ inp.text # <<>>
            /\ Head(inp.text) = BaseCode(string_encoding(inp.of))
    /\ (TextParsed /\ res.ok) =>
            /\ string_encoding(res.value) = PrefixBase(inp.text)
            /\ Head(to_string(res.value)) = Head(inp.text)

\* a base58btc text was parsed to a value
C18_Witness == TextParsed /\ res.ok /\ Head(inp.text) = "z"

\* C19: serialized shape: every value serializes to five elements in the order
\* sigil/version, key codec, payload encoding, attributes, signature: a 5-tuple
\* with a length-prefixed signature in compact mode, a struct with the fields
\* version (1 or 2), codec, encoding, attributes, signature in human-readable
\* mode; an EdDSA value serializes the Ed25519Pub code and no attributes.
C19_SerializedShape ==
    /\ res.op = "serialize" => res.ok
    /\ vs # NoVarsig =>
        LET r == serialize_readable(vs)
            c == serialize_compact(vs)
        IN  /\ r.ok
            /\ [i \in 1..Len(r.doc) |-> r.doc[i].key]
                    = <<"version", "codec", "encoding", "attributes", "signature">>
            /\ r.doc[1].val \in {1, 2}
            /\ r.doc[2].val = codec(vs)
            /\ r.doc[5].val = EncodedVarbytes(signature(vs))
            /\ c.ok
            /\ Len(c.doc) = 5
            /\ c.doc[1] = CodecEncode(sigil(vs))
            /\ c.doc[2] = CodecEncode(codec(vs))
            /\ c.doc[5] = VaruintEncode(Len(signature(vs))) \o signature(vs)
            /\ vs.variant = "EdDSA" =>
                    /\ r.doc[2].val = Ed25519Pub /\ r.doc[4].val = <<>>
                    /\ c.doc[2] = CodecEncode(Ed25519Pub) /\ c.doc[4] = <<>>

\* v is the variant that goes with the key code cd, and carries that code
VariantOf(v, cd) ==
    IF cd = Ed25519Pub
    THEN v.variant = "EdDSA" /\ codec(v) = Ed25519Pub
    ELSE v.variant = "Unknown" /\ v.codec = cd

\* the key code of a human-readable document
DocCodec(doc) == doc[CHOOSE i \in 1..Len(doc) : doc[i].key = "codec"].val

\* C20: the variant is determined by the key code on every construction path:
\* a value from build, wire decode, human-readable or compact deserialization is
\* EdDSA iff its key code is Ed25519Pub, else Unknown with exactly that code; no
\* Unknown value with the Ed25519Pub code comes out, and the paths agree.
C20_VariantByKeyCode ==
    /\ Built => VariantOf(vs, b.codec)
    /\ (res.op \in {"try_decode_from", "try_from_bytes"} /\ res.ok) =>
            VariantOf(res.value, CodecDecode(Drop(inp.bytes, 1)).value)
    /\ (res.op = "deserialize" /\ res.ok /\ inp.kind = "readable") =>
            VariantOf(res.value, DocCodec(inp.doc))
    /\ (res.op = "deserialize" /\ res.ok /\ inp.kind = "compact") =>
            VariantOf(res.value, CodecDecode(inp.doc[2]).value)
    /\ (origin \in {"build", "decoded"}) => ~(vs.variant = "Unknown" /\ vs.codec = Ed25519Pub)
    /\ (/\ res.op \in {"try_decode_from", "try_from_bytes", "deserialize"} /\ res.ok) =>
            ~(res.value.variant = "Unknown" /\ res.value.codec = Ed25519Pub)
    /\ (/\ Built
        /\ res.op \in {"try_decode_from", "deserialize"} /\ res.ok) =>
            /\ res.value.variant = vs.variant
            /\ codec(res.value) = codec(vs)

\* an EdDSA value the Builder built came back as EdDSA from the compact form
C20_Witness ==
    /\ Built /\ Deserialized /\ inp.kind = "compact" /\ res.ok
    /\ vs.variant = "EdDSA" /\ res.value.variant = "EdDSA"

\* the value the Builder built has been encoded, with nothing after it
BuiltEncoded == Built /\ inp.kind = "wire" /\ inp.of = vs /\ inp.tail = <<>>

\* the attributes the built value holds: those of the Builder, none for EdDSA
BuiltAttributes == IF b.codec = Ed25519Pub THEN <<>> ELSE b.signature_specific

\* the Builder of test_eip191_unknown
Eip191Builder ==
    with_signature_bytes(
        with_signature_specific(
            with_encoding(with_codec(newv1, Secp256K1Pub), Eip191), <<Keccak256>>),
        <<>>)

OnlyChanged(f) == DOMAIN b' = DOMAIN b /\ \A g \in DOMAIN b \ {f} : b'[g] = b[g]

\* setters on two distinct fields of the Builder b give the same Builder in
\* either order (every Builder is reached while its setters are chained)
SettersCommute ==
    /\ \A c \in KeyCodecs, e \in PayloadEncodings :
            with_encoding(with_codec(b, c), e) = with_codec(with_encoding(b, e), c)
    /\ \A c \in KeyCodecs, a \in AttrLists :
            with_signature_specific(with_codec(b, c), a)
                = with_codec(with_signature_specific(b, a), c)
    /\ \A c \in KeyCodecs, s \in Signatures :
            with_signature_bytes(with_codec(b, c), s)
                = with_codec(with_signature_bytes(b, s), c)
    /\ \A c \in KeyCodecs, base \in Bases :
            with_string_encoding(with_codec(b, c), base)
                = with_codec(with_string_encoding(b, base), c)
    /\ \A e \in PayloadEncodings, a \in AttrLists :
            with_signature_specific(with_encoding(b, e), a)
                = with_encoding(with_signature_specific(b, a), e)
    /\ \A e \in PayloadEncodings, s \in Signatures :
            with_signature_bytes(with_encoding(b, e), s)
                = with_encoding(with_signature_bytes(b, s), e)
    /\ \A e \in PayloadEncodings, base \in Bases :
            with_string_encoding(with_encoding(b, e), base)
                = with_encoding(with_string_encoding(b, base), e)
    /\ \A a \in AttrLists, s \in Signatures :
            with_signature_bytes(with_signature_specific(b, a), s)
                = with_signature_specific(with_signature_bytes(b, s), a)
    /\ \A a \in AttrLists, base \in Bases :
            with_string_encoding(with_signature_specific(b, a), base)
                = with_signature_specific(with_string_encoding(b, base), a)
    /\ \A s \in Signatures, base \in Bases :
            with_string_encoding(with_signature_bytes(b, s), base)
                = with_signature_bytes(with_string_encoding(b, base), s)

\* C22: each setter of the Builder replaces its own field and leaves every
\* other field, the sigil of the constructor included, unchanged; setters on
\* distinct fields commute; build leaves the Builder unchanged, and a second
\* build of the same Builder returns an equal value.
C22_SetterPurity ==
    /\ [][/\ WithCodec => (OnlyChanged("codec") /\ b'.codec \in KeyCodecs)
          /\ WithEncoding => (OnlyChanged("encoding") /\ b'.encoding \in PayloadEncodings)
          /\ WithSignatureSpecific =>
                (OnlyChanged("signature_specific") /\ b'.signature_specific \in AttrLists)
          /\ WithSignatureBytes => (OnlyChanged("signature") /\ b'.signature \in Signatures)
          /\ WithStringEncoding =>
                (OnlyChanged("string_encoding") /\ b'.string_encoding.some)
          /\ Build => (b' = b /\ ctor' = ctor /\ (Built => eq(vs', vs)))]_vars
    /\ [](Chaining /\ vs = NoVarsig => SettersCommute)

\* a value was built after every setter was used on a v1 Builder
C22_Witness ==
    /\ Built /\ ctor = "newv1" /\ b.sigil = Varsigv1
    /\ b.codec = Secp256K1Pub /\ b.encoding = Eip191
    /\ b.signature_specific # <<>> /\ b.signature # <<>> /\ b.string_encoding.some
    /\ vs = build(b)

\* C23: set_string_encoding changes only the base: the variant, the sigil, key
\* codec, payload encoding, attributes and signature of the accessors, and the
\* bytes of encode_into are the same before and after the call, for both
\* variants.
C23_SetStringEncodingFrame ==
    res.op = "set_string_encoding" =>
        /\ string_encoding(vs) = inp.base
        /\ vs.variant = inp.of.variant
        /\ DOMAIN vs = DOMAIN inp.of
        /\ sigil(vs) = sigil(inp.of)
        /\ codec(vs) = codec(inp.of)
        /\ encoding(vs) = encoding(inp.of)
        /\ signature(vs) = signature(inp.of)
        /\ vs.variant = "Unknown" => vs.signature_specific = inp.of.signature_specific
        /\ encode_into(vs) = encode_into(inp.of)

\* the base of an Unknown value with an attribute and a signature was changed
C23_Witness ==
    /\ res.op = "set_string_encoding"
    /\ inp.of.variant = "Unknown" /\ inp.base # string_encoding(inp.of)
    /\ inp.of.signature_specific # <<>> /\ signature(inp.of) # <<>>
    /\ string_encoding(vs) = inp.base

====
